---- MODULE Spec2Model ----
(***************************************************************************)
(* A model of models/imagenet/i2rnetv3.py: the channel rounding function   *)
(* _make_divisible, the I2RBlock module (constructor and forward) and the  *)
(* assembly and forward pass of the I2RNet and I2RNetV2 networks.          *)
(*                                                                         *)
(* Numbers.  A Python float is modelled by the exact rational <<n, d>>     *)
(* (d > 0) it denotes; the inputs enumerated below are ones on which the   *)
(* float computation and the rational one agree.                           *)
(* Tensors.  A tensor is [shape, data]: shape is <<N, C, H, W>> or         *)
(* <<N, F>>, data holds one value per channel (a tensor constant over the  *)
(* batch and the spatial positions).  What a convolution stack computes    *)
(* is the tensor library's business: its result is an input of the         *)
(* forward actions, of the shape the stack's layers determine.             *)
(***************************************************************************)
EXTENDS Integers, Sequences, FiniteSets

VARIABLES
    \* one call of _make_divisible
    md_pc, md_v, md_divisor, md_min_value, md_result,
    \* one I2RBlock: constructor arguments, the object, one forward call
    b_pc, b_args, b_self, b_x, b_conv_out, b_out,
    \* one network: constructor locals, the object's fields, one forward call
    \* (n_input is the shape of the tensor forward was called with, x the
    \* local variable of forward)
    n_pc, n_class, width_mult, num_classes, input_channel, output_channel,
    layers, stage, i, classifier, n_input, x

md_vars == <<md_pc, md_v, md_divisor, md_min_value, md_result>>
b_vars == <<b_pc, b_args, b_self, b_x, b_conv_out, b_out>>
n_vars == <<n_pc, n_class, width_mult, num_classes, input_channel,
            output_channel, layers, stage, i, classifier, n_input, x>>
vars == <<md_vars, b_vars, n_vars>>

----------------------------------------------------------------------------
(* Bounds of the enumerated inputs. *)

\* _make_divisible is called with v = k/2 for k in 0..MaxValueHalves
MaxValueHalves == 60
MaxDivisor == 8
MaxMinValue == 12
\* tensor entries are a + b*c for a, b in 0..MaxPixel (c the channel index)
MaxPixel == 1
MaxBatch == 2
\* an I2RBlock is built with inp, oup in MinChannels..MaxChannels
MinChannels == 4
MaxChannels == 6

\* Python's None, for the min_value parameter
None == -1

Max(a, b) == IF a >= b THEN a ELSE b
Min(a, b) == IF a <= b THEN a ELSE b

----------------------------------------------------------------------------
(* _make_divisible *)

\* int(n / d) for d > 0: truncation toward zero
PyInt(n, d) == IF n >= 0 THEN n \div d ELSE -((-n) \div d)

\* c * width_mult, for an integer c and a rational width_mult
Times(c, q) == <<c * q[1], q[2]>>

\* the plain rounding to a multiple of divisor, with neither the min_value
\* floor nor the 10% correction
make_divisible_plain_rounding(v, divisor, min_value) ==
    (PyInt(2 * v[1] + divisor * v[2], 2 * v[2]) \div divisor) * divisor

\* the rounding without the 10% correction
make_divisible_no_correction(v, divisor, min_value) ==
    LET mv == IF min_value = None THEN divisor ELSE min_value
    IN Max(mv, (PyInt(2 * v[1] + divisor * v[2], 2 * v[2]) \div divisor) * divisor)

make_divisible(v, divisor, min_value) ==
    LET mv == IF min_value = None THEN divisor ELSE min_value
        new_v == Max(mv, (PyInt(2 * v[1] + divisor * v[2], 2 * v[2]) \div divisor)
                            * divisor)
    IN IF 10 * new_v * v[2] < 9 * v[1] THEN new_v + divisor ELSE new_v

----------------------------------------------------------------------------
(* Layers of the tensor library, as far as channel counts and shapes go. *)

Conv2d(in_channels, out_channels, kernel_size, stride, padding, groups) ==
    [kind |-> "Conv2d", cin |-> in_channels, cout |-> out_channels,
     kernel |-> kernel_size, stride |-> stride, padding |-> padding,
     groups |-> groups]

BatchNorm2d(num_features) ==
    [kind |-> "BatchNorm2d", cin |-> num_features, cout |-> num_features,
     kernel |-> 1, stride |-> 1, padding |-> 0, groups |-> 1]

\* ReLU6 accepts any channel count (cin = cout = 0 stands for "any")
ReLU6 ==
    [kind |-> "ReLU6", cin |-> 0, cout |-> 0,
     kernel |-> 1, stride |-> 1, padding |-> 0, groups |-> 1]

\* the shape of a failed call (the library raises on a shape mismatch)
ShapeError == <<>>

ConvOutSize(size, l) == (size + 2 * l.padding - l.kernel) \div l.stride + 1

\* the shape one layer yields on an input of shape <<N, C, H, W>>
LayerShape(l, shape) ==
    IF shape = ShapeError THEN ShapeError
    ELSE IF l.kind = "ReLU6" THEN shape
    ELSE IF shape[2] # l.cin THEN ShapeError
    ELSE IF l.kind = "BatchNorm2d" THEN shape
    ELSE <<shape[1], l.cout, ConvOutSize(shape[3], l), ConvOutSize(shape[4], l)>>

\* nn.Sequential: the layers applied in order
RECURSIVE SequentialShape(_, _)
SequentialShape(ls, shape) ==
    IF ls = <<>> THEN shape
    ELSE SequentialShape(Tail(ls), LayerShape(Head(ls), shape))

conv_3x3_bn(inp, oup, stride) ==
    [kind |-> "Sequential",
     conv |-> <<Conv2d(inp, oup, 3, stride, 1, 1), BatchNorm2d(oup), ReLU6>>]

----------------------------------------------------------------------------
(* I2RBlock.__init__ *)

\* the branch selection without the expand_ratio == 2 branch
Variant_without_expand_branch(inp, oup, stride, expand_ratio, transition) ==
    IF (inp # oup /\ stride = 1) \/ transition = TRUE THEN 2
    ELSE IF inp # oup /\ stride = 2 THEN 3
    ELSE 4

\* the branch of the if/elif chain that is taken, numbered in source order
Variant(inp, oup, stride, expand_ratio, transition) ==
    IF expand_ratio = 2 THEN 1
    ELSE IF (inp # oup /\ stride = 1) \/ transition = TRUE THEN 2
    ELSE IF inp # oup /\ stride = 2 THEN 3
    ELSE 4

\* hidden_dim never recomputed from oup
HiddenDim_from_inp(inp, oup, expand_ratio, variant) == inp \div expand_ratio

\* hidden_dim: inp // expand_ratio, reassigned in the second and third branch
HiddenDim(inp, oup, expand_ratio, variant) ==
    IF variant \in {2, 3} THEN oup \div expand_ratio ELSE inp \div expand_ratio

\* self.conv, per branch
BlockConv(inp, oup, stride, hidden_dim, variant) ==
    CASE variant = 1 ->
           << Conv2d(inp, inp, 3, 1, 1, inp), BatchNorm2d(inp), ReLU6,
              Conv2d(inp, hidden_dim, 1, 1, 0, 1), BatchNorm2d(hidden_dim),
              Conv2d(hidden_dim, oup, 1, 1, 0, 1), BatchNorm2d(oup), ReLU6,
              Conv2d(oup, oup, 3, stride, 1, oup), BatchNorm2d(oup) >>
      [] variant = 2 ->
           << Conv2d(inp, hidden_dim, 1, 1, 0, 1), BatchNorm2d(hidden_dim),
              Conv2d(hidden_dim, oup, 1, 1, 0, 1), BatchNorm2d(oup), ReLU6 >>
      [] variant = 3 ->
           << Conv2d(inp, hidden_dim, 1, 1, 0, 1), BatchNorm2d(hidden_dim),
              Conv2d(hidden_dim, oup, 1, 1, 0, 1), BatchNorm2d(oup), ReLU6,
              Conv2d(oup, oup, 3, stride, 1, oup), BatchNorm2d(oup) >>
      [] OTHER ->
           << Conv2d(inp, inp, 3, 1, 1, oup), BatchNorm2d(inp), ReLU6,
              Conv2d(inp, hidden_dim, 1, 1, 0, 1), BatchNorm2d(hidden_dim),
              Conv2d(hidden_dim, oup, 1, 1, 0, 1), BatchNorm2d(oup), ReLU6,
              Conv2d(oup, oup, 3, 1, 1, oup), BatchNorm2d(oup) >>

\* self.div
div == 1

\* The constructed object.  identity, expand_ratio, id_tensor_idx and conv are
\* its fields; args and variant record the call and the branch taken.
I2RBlock(inp, oup, stride, expand_ratio, transition) ==
    LET variant == Variant(inp, oup, stride, expand_ratio, transition)
        hidden_dim == HiddenDim(inp, oup, expand_ratio, variant)
    IN [kind |-> "I2RBlock",
        args |-> [inp |-> inp, oup |-> oup, stride |-> stride,
                  expand_ratio |-> expand_ratio, transition |-> transition],
        variant |-> variant,
        identity |-> (variant = 4),
        expand_ratio |-> expand_ratio,
        id_tensor_idx |-> inp \div div,
        conv |-> BlockConv(inp, oup, stride, hidden_dim, variant)]

----------------------------------------------------------------------------
(* I2RBlock.forward *)

ErrorTensor == [shape |-> ShapeError, data |-> <<>>]

\* t[:, :k, :, :]
Slice(t, k) ==
    LET c == Min(k, t.shape[2])
    IN [shape |-> <<t.shape[1], c, t.shape[3], t.shape[4]>>,
        data |-> SubSeq(t.data, 1, c)]

\* the residual added to the first channel only
I2RBlock_forward_first_channel(self, xin, conv_out) ==
    IF conv_out.shape = ShapeError THEN ErrorTensor
    ELSE IF ~self.identity THEN conv_out
    ELSE [shape |-> conv_out.shape,
          data |-> [c \in 1..Len(conv_out.data) |->
                       IF c <= 1 THEN conv_out.data[c] + xin.data[c]
                       ELSE conv_out.data[c]]]

\* conv_out is what self.conv(x) returned
I2RBlock_forward(self, xin, conv_out) ==
    IF conv_out.shape = ShapeError THEN ErrorTensor
    ELSE IF ~self.identity THEN conv_out
    ELSE LET id_tensor == Slice(xin, self.id_tensor_idx)
             target == Slice(conv_out, self.id_tensor_idx)
         IN IF id_tensor.shape # target.shape THEN ErrorTensor
            ELSE [shape |-> conv_out.shape,
                  data |-> [c \in 1..Len(conv_out.data) |->
                               IF c <= Len(target.data)
                               THEN conv_out.data[c] + id_tensor.data[c]
                               ELSE conv_out.data[c]]]

\* the tensors of a given shape that the actions enumerate
Tensors(shape) ==
    IF shape = ShapeError THEN {ErrorTensor}
    ELSE {[shape |-> shape, data |-> [c \in 1..shape[2] |-> a + b * c]] :
             a \in 0..MaxPixel, b \in 0..MaxPixel}

----------------------------------------------------------------------------
(* The states in which a part of the program is not in use. *)

md_idle ==
    /\ md_pc = "idle" /\ md_v = <<0, 1>> /\ md_divisor = 1
    /\ md_min_value = None /\ md_result = None

NoTensor == [shape |-> <<>>, data |-> <<>>]

b_idle ==
    /\ b_pc = "idle" /\ b_args = <<>> /\ b_self = <<>>
    /\ b_x = NoTensor /\ b_conv_out = NoTensor /\ b_out = NoTensor

n_idle ==
    /\ n_pc = "idle" /\ n_class = "" /\ width_mult = <<1, 1>> /\ num_classes = 0
    /\ input_channel = 0 /\ output_channel = 0 /\ layers = <<>> /\ stage = 0
    /\ i = 0 /\ classifier = <<>> /\ n_input = <<>> /\ x = NoTensor

----------------------------------------------------------------------------
(* Specification of _make_divisible: the inputs are drawn in Init. *)

InitDivisible ==
    /\ md_pc = "call"
    /\ md_v \in {<<k, 2>> : k \in 0..MaxValueHalves}
    /\ md_divisor \in 1..MaxDivisor
    /\ md_min_value \in {None} \cup (0..MaxMinValue)
    /\ md_result = None
    /\ b_idle /\ n_idle

CallMakeDivisible ==
    /\ md_pc = "call"
    /\ md_result' = make_divisible(md_v, md_divisor, md_min_value)
    /\ md_pc' = "returned"
    /\ UNCHANGED <<md_v, md_divisor, md_min_value, b_vars, n_vars>>

NextDivisible == CallMakeDivisible

SpecDivisible == InitDivisible /\ [][NextDivisible]_vars

----------------------------------------------------------------------------
(* Specification of one I2RBlock: it is constructed, then called once. *)

Channels == MinChannels..MaxChannels
Strides == {1, 2, 3}
ExpandRatios == {1, 2, 4}
FeatureSizes == {7, 8}

InitBlock ==
    /\ b_pc = "new"
    /\ b_args \in [inp : Channels, oup : Channels, stride : Strides,
                   expand_ratio : ExpandRatios, transition : BOOLEAN]
    /\ b_self = <<>>
    /\ b_x = NoTensor /\ b_conv_out = NoTensor /\ b_out = NoTensor
    /\ md_idle /\ n_idle

\* I2RBlock(inp, oup, stride, expand_ratio, transition)
ConstructBlock ==
    /\ b_pc = "new"
    /\ IF b_args.stride \notin {1, 2}
       THEN /\ b_pc' = "AssertionError"
            /\ UNCHANGED b_self
       ELSE /\ b_self' = I2RBlock(b_args.inp, b_args.oup, b_args.stride,
                                  b_args.expand_ratio, b_args.transition)
            /\ b_pc' = "built"
    /\ UNCHANGED <<b_args, b_x, b_conv_out, b_out, md_vars, n_vars>>

\* block(x), on an input with inp channels
ForwardBlock ==
    /\ b_pc = "built"
    /\ \E n \in 1..MaxBatch, size \in FeatureSizes :
         \E xin \in Tensors(<<n, b_args.inp, size, size>>) :
           \E conv_out \in Tensors(SequentialShape(b_self.conv, xin.shape)) :
              /\ b_x' = xin
              /\ b_conv_out' = conv_out
              /\ b_out' = I2RBlock_forward(b_self, xin, conv_out)
              /\ b_pc' = IF b_out'.shape = ShapeError THEN "RuntimeError"
                         ELSE "returned"
    /\ UNCHANGED <<b_args, b_self, md_vars, n_vars>>

NextBlock == ConstructBlock \/ ForwardBlock

SpecBlock == InitBlock /\ [][NextBlock]_vars

----------------------------------------------------------------------------
(* I2RNet.__init__ and I2RNetV2.__init__ *)

\* rows t, c, n, s
I2RNet_cfgs ==
    << <<2,   96, 1, 2>>,
       <<4,   96, 2, 1>>,
       <<4,  128, 1, 1>>,
       <<4,  128, 2, 2>>,
       <<4,  256, 1, 1>>,
       <<4,  256, 2, 2>>,
       <<4,  384, 4, 1>>,
       <<4,  640, 1, 1>>,
       <<4,  640, 2, 2>>,
       <<4, 1280, 2, 1>> >>

\* the stage table of I2RNet with a transition column of zeros
I2RNetV2_cfgs_of_I2RNet ==
    [r \in 1..Len(I2RNet_cfgs) |-> I2RNet_cfgs[r] \o <<0>>]

\* rows t, c, n, s, b
I2RNetV2_cfgs ==
    << <<2,   96, 1, 2, 0>>,
       <<4,   96, 1, 1, 0>>,
       <<4,  128, 3, 2, 0>>,
       <<4,  256, 2, 2, 0>>,
       <<4,  384, 2, 1, 0>>,
       <<4,  384, 2, 1, 1>>,
       <<4,  640, 2, 2, 0>>,
       <<4, 1280, 2, 1, 0>> >>

cfgs(class) == IF class = "I2RNet" THEN I2RNet_cfgs ELSE I2RNetV2_cfgs

\* 4 if width_mult == 0.1 else 8
Divisor(wm) == IF 10 * wm[1] = wm[2] THEN 4 ELSE 8

\* _make_divisible(c * width_mult, 4 if width_mult == 0.1 else 8)
ScaledChannels(c, wm) == make_divisible(Times(c, wm), Divisor(wm), None)

\* block(input_channel, output_channel, s, t) in I2RNet,
\* block(input_channel, output_channel, s, t, b == 1) in I2RNetV2
FirstBlock(class, row, inp, oup) ==
    IF class = "I2RNet"
    THEN I2RBlock(inp, oup, row[4], row[1], FALSE)
    ELSE I2RBlock(inp, oup, row[4], row[1], row[5] = 1)

\* the row's stride passed to every block of the stage
RepeatBlock_stride_of_row(row, inp, oup) ==
    I2RBlock(inp, oup, row[4], row[1], FALSE)

\* block(input_channel, output_channel, 1, t)
RepeatBlock(row, inp, oup) == I2RBlock(inp, oup, 1, row[1], FALSE)

\* range(n) in place of range(n-1)
RepeatCount_n(row) == row[3]

\* for i in range(n-1)
RepeatCount(row) == row[3] - 1

\* the assignment left out
NextInputChannel_kept(inp, oup) == inp

\* input_channel = output_channel
NextInputChannel(inp, oup) == oup

\* _make_divisible(input_channel, 4)
HeadChannels(inp) == make_divisible(<<inp, 1>>, 4, None)

Linear(in_features, out_features) ==
    [kind |-> "Linear", cin |-> in_features, cout |-> out_features,
     kernel |-> 1, stride |-> 1, padding |-> 0, groups |-> 1]

Dropout ==
    [kind |-> "Dropout", cin |-> 0, cout |-> 0,
     kernel |-> 1, stride |-> 1, padding |-> 0, groups |-> 1]

----------------------------------------------------------------------------
(* forward of I2RNet and I2RNetV2, after self.features *)

\* nn.AdaptiveAvgPool2d((1, 1))
AvgPoolShape(shape) == <<shape[1], shape[2], 1, 1>>

\* x.view(x.size(0), -1)
ViewShape(shape) == <<shape[1], shape[2] * shape[3] * shape[4]>>

\* self.classifier on a <<N, F>> input
ClassifierShape(cl, shape) ==
    IF shape[2] # cl[2].cin THEN ShapeError ELSE <<shape[1], cl[2].cout>>

----------------------------------------------------------------------------
(* Specification of a network: built step by step, then called once. *)

\* width multipliers, as rationals
WidthMults ==
    {<<1, 20>>, <<1, 10>>, <<3, 25>>, <<1, 4>>, <<1, 2>>, <<3, 4>>, <<1, 1>>, <<7, 5>>}
NumClasses == {1000}
ImageChannels == {1, 3}
ImageSizes == {224}

InitNet ==
    /\ n_pc = "init"
    /\ n_class \in {"I2RNet", "I2RNetV2"}
    /\ width_mult \in WidthMults
    /\ num_classes \in NumClasses
    /\ input_channel = 0 /\ output_channel = 0 /\ layers = <<>>
    /\ stage = 0 /\ i = 0 /\ classifier = <<>>
    /\ n_input = <<>> /\ x = NoTensor
    /\ md_idle /\ b_idle

\* building first layer
BuildStem ==
    /\ n_pc = "init"
    /\ input_channel' = ScaledChannels(32, width_mult)
    /\ layers' = <<conv_3x3_bn(3, input_channel', 2)>>
    /\ stage' = 1
    /\ n_pc' = "stage"
    /\ UNCHANGED <<n_class, width_mult, num_classes, output_channel, i,
                   classifier, n_input, x, md_vars, b_vars>>

\* one iteration of the outer loop, up to the inner loop
AppendFirstBlock ==
    /\ n_pc = "stage"
    /\ stage <= Len(cfgs(n_class))
    /\ LET row == cfgs(n_class)[stage]
       IN /\ output_channel' = ScaledChannels(row[2], width_mult)
          /\ layers' = Append(layers, FirstBlock(n_class, row, input_channel,
                                                 output_channel'))
          /\ input_channel' = NextInputChannel(input_channel, output_channel')
    /\ i' = 0
    /\ n_pc' = "repeat"
    /\ UNCHANGED <<n_class, width_mult, num_classes, stage, classifier,
                   n_input, x, md_vars, b_vars>>

\* one iteration of the inner loop
AppendRepeatBlock ==
    /\ n_pc = "repeat"
    /\ i < RepeatCount(cfgs(n_class)[stage])
    /\ layers' = Append(layers, RepeatBlock(cfgs(n_class)[stage], input_channel,
                                            output_channel))
    /\ input_channel' = NextInputChannel(input_channel, output_channel)
    /\ i' = i + 1
    /\ UNCHANGED <<n_pc, n_class, width_mult, num_classes, output_channel,
                   stage, classifier, n_input, x, md_vars, b_vars>>

\* the inner loop is exhausted
EndStage ==
    /\ n_pc = "repeat"
    /\ i >= RepeatCount(cfgs(n_class)[stage])
    /\ stage' = stage + 1
    /\ n_pc' = "stage"
    /\ UNCHANGED <<n_class, width_mult, num_classes, input_channel,
                   output_channel, layers, i, classifier, n_input, x,
                   md_vars, b_vars>>

\* building last several layers
BuildHead ==
    /\ n_pc = "stage"
    /\ stage > Len(cfgs(n_class))
    /\ input_channel' = output_channel
    /\ output_channel' = HeadChannels(input_channel')
    /\ classifier' = <<Dropout, Linear(output_channel', num_classes)>>
    /\ n_pc' = "built"
    /\ UNCHANGED <<n_class, width_mult, num_classes, layers, stage, i,
                   n_input, x,
                   md_vars, b_vars>>

\* net(x) is called
CallForward ==
    /\ n_pc = "built"
    /\ \E n \in 1..MaxBatch, c \in ImageChannels, size \in ImageSizes :
          x' \in Tensors(<<n, c, size, size>>)
    /\ n_input' = x'.shape
    /\ i' = 1
    /\ n_pc' = "features"
    /\ UNCHANGED <<n_class, width_mult, num_classes, input_channel,
                   output_channel, layers, stage, classifier, md_vars, b_vars>>

\* self.features applies its next module
ForwardFeature ==
    /\ n_pc = "features"
    /\ i <= Len(layers)
    /\ \E conv_out \in Tensors(SequentialShape(layers[i].conv, x.shape)) :
          x' = IF layers[i].kind = "Sequential" THEN conv_out
               ELSE I2RBlock_forward(layers[i], x, conv_out)
    /\ IF x'.shape = ShapeError
       THEN n_pc' = "RuntimeError" /\ UNCHANGED i
       ELSE n_pc' = n_pc /\ i' = i + 1
    /\ UNCHANGED <<n_class, width_mult, num_classes, input_channel,
                   output_channel, layers, stage, classifier, n_input,
                   md_vars, b_vars>>

\* avgpool, view, classifier
ForwardHead ==
    /\ n_pc = "features"
    /\ i > Len(layers)
    /\ x' \in Tensors(ClassifierShape(classifier,
                                      ViewShape(AvgPoolShape(x.shape))))
    /\ n_pc' = IF x'.shape = ShapeError THEN "RuntimeError" ELSE "returned"
    /\ UNCHANGED <<n_class, width_mult, num_classes, input_channel,
                   output_channel, layers, stage, i, classifier, n_input,
                   md_vars, b_vars>>

NextNet ==
    \/ BuildStem \/ AppendFirstBlock \/ AppendRepeatBlock \/ EndStage
    \/ BuildHead \/ CallForward \/ ForwardFeature \/ ForwardHead

SpecNet == InitNet /\ [][NextNet]_vars

----------------------------------------------------------------------------
(* Properties of _make_divisible, under SpecDivisible. *)

\* min_value as the function uses it
EffectiveMin == IF md_min_value = None THEN md_divisor ELSE md_min_value

\* result >= 0.9 * v
WithinTenPercent == 10 * md_result * md_v[2] >= 9 * md_v[1]

\* v >= min_value
ValueAtLeastMin == md_v[1] >= EffectiveMin * md_v[2]

\* C1, as stated: the result of _make_divisible(value, divisor, min_value) is
\* a non-negative integer, is a multiple of divisor unless it equals min_value,
\* and is at least 0.9 * value whenever value >= min_value.
C1_Original ==
    md_pc = "returned" =>
        /\ md_result \in Nat
        /\ md_result % md_divisor = 0 \/ md_result = EffectiveMin
        /\ ValueAtLeastMin => WithinTenPercent

\* C1, amended: for value >= 0, divisor >= 1 and min_value >= 0 the result is a
\* non-negative integer, is a multiple of divisor unless it equals min_value or
\* min_value + divisor (the floor min_value raised by the 10% correction), and
\* is at least 0.9 * value whenever value >= min_value.
C1_Amended ==
    md_pc = "returned" =>
        /\ md_result \in Nat
        /\ \/ md_result % md_divisor = 0
           \/ md_result = EffectiveMin
           \/ md_result = EffectiveMin + md_divisor
        /\ ValueAtLeastMin => WithinTenPercent

\* a call with value >= min_value whose result is the floor min_value raised by
\* one divisor, and no multiple of divisor (e.g. value 11, divisor 8, floor 9)
C1_Witness ==
    /\ md_pc = "returned"
    /\ ValueAtLeastMin
    /\ md_result = EffectiveMin + md_divisor
    /\ md_result % md_divisor # 0

----------------------------------------------------------------------------
(* Properties of one I2RBlock, under SpecBlock. *)

Constructed == b_pc \in {"built", "returned", "RuntimeError"}

EqualWidthUnitStride ==
    /\ b_args.inp = b_args.oup
    /\ b_args.stride = 1
    /\ b_args.transition = FALSE

\* variant 4 was selected and, once forward has returned, the first inp
\* channels of the output are the conv output plus the input, elementwise
PartialIdentityApplied ==
    /\ b_self.variant = 4
    /\ b_self.identity
    /\ b_pc # "RuntimeError"
    /\ b_pc = "returned" =>
          /\ b_out.shape = b_conv_out.shape
          /\ Len(b_out.data) >= b_args.inp
          /\ \A c \in 1..b_args.inp :
                b_out.data[c] = b_conv_out.data[c] + b_x.data[c]

\* C2, as stated: a block with inp == oup, stride == 1, transition == false,
\* whatever its expand_ratio, selects variant 4 and adds the input's first
\* inp channels to the conv output's first inp channels.
C2_Original ==
    (Constructed /\ EqualWidthUnitStride) => PartialIdentityApplied

\* C2, amended: the same, for every expand_ratio other than 2.
C2_Amended ==
    (Constructed /\ EqualWidthUnitStride /\ b_args.expand_ratio # 2)
        => PartialIdentityApplied

\* such a block has returned from forward on an input that is not zero
C2_Witness ==
    /\ b_pc = "returned"
    /\ EqualWidthUnitStride
    /\ b_args.expand_ratio # 2
    /\ \A c \in 1..b_args.inp : b_x.data[c] # 0

\* C3: a block with expand_ratio == 2 never adds a residual (its identity flag
\* is false and forward returns the conv output unchanged) and its output has
\* exactly oup channels, whatever inp, oup, stride and transition are.
C3_NoResidualForExpandTwo ==
    (Constructed /\ b_args.expand_ratio = 2) =>
        /\ ~b_self.identity
        /\ b_pc # "RuntimeError"
        /\ b_pc = "returned" =>
              /\ b_out = b_conv_out
              /\ b_out.shape[2] = b_args.oup
              /\ Len(b_out.data) = b_args.oup

\* a block with expand_ratio == 2 and otherwise the arguments of the identity
\* variant has returned from forward on an input that is not zero
C3_Witness ==
    /\ b_pc = "returned"
    /\ b_args.expand_ratio = 2
    /\ EqualWidthUnitStride
    /\ \A c \in 1..b_args.inp : b_x.data[c] # 0

\* C7: the residual add is enabled only when inp == oup, stride == 1 and
\* transition == false; every other block performs no residual add.
C7_ResidualOnlyAtUnitStride ==
    Constructed =>
        /\ b_self.identity => EqualWidthUnitStride
        /\ (b_pc = "returned" /\ ~EqualWidthUnitStride) => b_out = b_conv_out

\* the 1x1 convolution that reduces the channel count: the first 1x1
\* convolution of self.conv
ProjectDown(conv) ==
    conv[CHOOSE j \in 1..Len(conv) :
            /\ conv[j].kind = "Conv2d" /\ conv[j].kernel = 1
            /\ \A k \in 1..(j - 1) :
                  ~(conv[k].kind = "Conv2d" /\ conv[k].kernel = 1)]

\* C9, as stated: in every variant the project-down convolution reduces to
\* oup // expand_ratio channels.
C9_Original ==
    Constructed =>
        ProjectDown(b_self.conv).cout = b_args.oup \div b_args.expand_ratio

\* C9, amended: the project-down convolution reduces to oup // expand_ratio
\* channels in variants 2, 3 and 4, and to inp // expand_ratio channels in
\* variant 1 (expand_ratio == 2).
C9_Amended ==
    Constructed =>
        ProjectDown(b_self.conv).cout =
            IF b_args.expand_ratio = 2
            THEN b_args.inp \div b_args.expand_ratio
            ELSE b_args.oup \div b_args.expand_ratio

\* a variant 1 block whose bottleneck width differs from oup // expand_ratio
C9_Witness ==
    /\ Constructed
    /\ b_self.variant = 1
    /\ b_args.inp \div b_args.expand_ratio # b_args.oup \div b_args.expand_ratio

----------------------------------------------------------------------------
(* Properties of the networks, under SpecNet. *)

\* the constructor has returned
Built == n_pc \in {"built", "features", "returned", "RuntimeError"}

\* the constructor has appended the stem
Assembling == n_pc \in {"stage", "repeat"} \/ Built

\* the number of blocks of self.features: its modules but the stem
NumBlocks == Len(layers) - 1

\* the sum of the repeat counts n of the rows r..Len(table)
RECURSIVE SumRepeats(_, _)
SumRepeats(table, r) ==
    IF r > Len(table) THEN 0 ELSE table[r][3] + SumRepeats(table, r + 1)

\* the channel count a module of self.features yields, from its layers
OutChannels(m) == SequentialShape(m.conv, <<1, m.conv[1].cin, 8, 8>>)[2]

\* C4, as stated: I2RNetV2's 8-row table yields exactly 16 blocks, the sum of
\* the repeat counts n of its rows.
C4_Original ==
    (n_class = "I2RNetV2" /\ Built) =>
        /\ Len(I2RNetV2_cfgs) = 8
        /\ NumBlocks = 16
        /\ NumBlocks = SumRepeats(I2RNetV2_cfgs, 1)

\* C4, amended: I2RNetV2's 8-row table yields exactly 15 blocks, the sum
\* 1+1+3+2+2+2+2+2 of the repeat counts n of its rows.
C4_Amended ==
    (n_class = "I2RNetV2" /\ Built) =>
        /\ Len(I2RNetV2_cfgs) = 8
        /\ NumBlocks = 15
        /\ NumBlocks = SumRepeats(I2RNetV2_cfgs, 1)

\* an I2RNetV2 has been constructed
C4_Witness == n_class = "I2RNetV2" /\ n_pc = "built" /\ NumBlocks > 0

\* I2RNet(num_classes=1000, width_mult=1.0) called on a 3x224x224 batch
ImageNetCall ==
    /\ n_class = "I2RNet" /\ num_classes = 1000 /\ width_mult = <<1, 1>>
    /\ n_pc \in {"features", "returned", "RuntimeError"}
    /\ n_input \in {<<n, 3, 224, 224>> : n \in 1..MaxBatch}

\* C5: I2RNet(num_classes=1000, width_mult=1.0) run on a batched 3x224x224
\* input never meets a layer whose expected channel count differs from the
\* one it receives, and returns an output of shape (batch, 1000).
C5_ForwardShape ==
    ImageNetCall =>
        /\ n_pc # "RuntimeError"
        /\ x.shape # ShapeError
        /\ n_pc = "returned" => x.shape = <<n_input[1], 1000>>

\* the forward pass of that network has returned, for a batch of MaxBatch
C5_Witness ==
    ImageNetCall /\ n_pc = "returned" /\ n_input[1] = MaxBatch

\* C6: for a width multiplier >= 0.1, the stem's and every stage's channel
\* count is never zero, in I2RNet and in I2RNetV2.
C6_NoZeroChannels ==
    (Assembling /\ 10 * width_mult[1] >= width_mult[2]) =>
        /\ input_channel # 0
        /\ n_pc # "stage" \/ stage > 1 => output_channel # 0
        /\ \A j \in 1..Len(layers) : OutChannels(layers[j]) # 0
        /\ \A j \in 2..Len(layers) :
              layers[j].args.inp # 0 /\ layers[j].args.oup # 0

\* a network is built at a width at which 32 * width_mult rounds to no
\* positive multiple of the divisor
C6_Witness ==
    /\ n_pc = "built"
    /\ 10 * width_mult[1] >= width_mult[2]
    /\ 2 * 32 * width_mult[1] < Divisor(width_mult) * width_mult[2]

\* inp == oup, stride == 2, transition == false
EqualWidthStrideTwo(a) == a.inp = a.oup /\ a.stride = 2 /\ a.transition = FALSE

\* C8, as stated: at width multiplier 1.0 neither network constructs a block
\* with inp == oup, stride == 2 and transition == false.
C8_Original ==
    (Assembling /\ width_mult = <<1, 1>>) =>
        \A j \in 2..Len(layers) : ~EqualWidthStrideTwo(layers[j].args)

\* C8, amended: at width multiplier 1.0 I2RNetV2 constructs no block with
\* inp == oup, stride == 2 and transition == false; I2RNet constructs three,
\* the first blocks of its stages (4,128,2,2), (4,256,2,2) and (4,640,2,2).
C8_Amended ==
    (Assembling /\ width_mult = <<1, 1>>) =>
        /\ n_class = "I2RNetV2" =>
              \A j \in 2..Len(layers) : ~EqualWidthStrideTwo(layers[j].args)
        /\ (n_class = "I2RNet" /\ Built) =>
              {j \in 2..Len(layers) : EqualWidthStrideTwo(layers[j].args)}
                  = {6, 9, 16}

\* an I2RNetV2 of width 1.0 is built, with a block of equal widths in it
C8_Witness ==
    /\ n_class = "I2RNetV2" /\ width_mult = <<1, 1>> /\ n_pc = "built"
    /\ \E j \in 2..Len(layers) : layers[j].args.inp = layers[j].args.oup

\* the transition flag of a row: I2RNet's rows have none
UseTransition(class, row) == class = "I2RNetV2" /\ row[5] = 1

\* the constructor arguments C10 gives for the blocks of the rows r.. of the
\* table, inp being the running input channel count
RECURSIVE ExpectedArgs(_, _, _, _)
ExpectedArgs(class, wm, r, inp) ==
    IF r > Len(cfgs(class)) THEN <<>>
    ELSE LET row == cfgs(class)[r]
             oup == make_divisible(Times(row[2], wm), Divisor(wm), None)
             first == [inp |-> inp, oup |-> oup, stride |-> row[4],
                       expand_ratio |-> row[1],
                       transition |-> UseTransition(class, row)]
             rest == [k \in 1..(row[3] - 1) |->
                         [inp |-> oup, oup |-> oup, stride |-> 1,
                          expand_ratio |-> row[1], transition |-> FALSE]]
         IN <<first>> \o rest \o ExpectedArgs(class, wm, r + 1, oup)

\* C10: for each row (t, c, n, s, use_transition), in table order, exactly n
\* blocks are appended, the first with (running input channels, output
\* channels, s, t, use_transition), the others with (output channels, output
\* channels, 1, t, false); so each block's inp is the channel count the module
\* before it yields.
C10_Assembly ==
    Assembling =>
        LET expected == ExpectedArgs(n_class, width_mult, 1, OutChannels(layers[1]))
        IN /\ NumBlocks <= Len(expected)
           /\ \A j \in 1..NumBlocks : layers[j + 1].args = expected[j]
           /\ Built => NumBlocks = Len(expected)
           /\ n_pc = "stage" =>
                 NumBlocks = SumRepeats(cfgs(n_class), 1)
                                - SumRepeats(cfgs(n_class), stage)
           /\ \A j \in 2..Len(layers) :
                 layers[j].args.inp = OutChannels(layers[j - 1])

\* a network is built whose table has a row with n > 1 and a transition row
C10_Witness ==
    /\ n_class = "I2RNetV2" /\ n_pc = "built"
    /\ \E j \in 2..Len(layers) : layers[j].args.transition
    /\ \E j \in 3..Len(layers) : layers[j].args = layers[j - 1].args

====
